---- MODULE Spec2Model ----
(***************************************************************************)
(* A model of Skool/skool_scraper.py: the pagination loop                  *)
(* (SkoolScraper.scroll_and_load_posts), the field extractor               *)
(* (SkoolScraper.extract_post_data), the batch loop                        *)
(* (SkoolScraper.scrape_posts) and the orchestration with its guaranteed   *)
(* cleanup (main, SkoolScraper.close).                                     *)
(*                                                                         *)
(* Text is a sequence of one-character strings, so that slicing, strip(),  *)
(* the digit filter and int() are computed character by character.         *)
(***************************************************************************)
EXTENDS Integers, Sequences, FiniteSets, TLC

VARIABLES
    \* scroll_and_load_posts: argument, locals, position, returned value
    max_posts, posts_loaded, scroll_attempts, post_elements, sc_pc, sc_result,
    \* history of the scroll loop: iterations run, iterations that grew the
    \* loaded count, and the current run of iterations without growth
    iterations, growths, stall_run,
    \* extract_post_data: the feed item probed, position, the returned value
    \* and, per field, how many selectors of its list were probed
    elem, ex_pc, post, probes,
    \* main and scrape_posts; outcomes is the history of the for loop: for
    \* each element processed, whether its extraction raised and what
    \* extract_post_data returned
    main_pc, driver, quit_calls, path, elements, feed_i, scraped_posts,
    self_posts, outcomes

vars == <<max_posts, posts_loaded, scroll_attempts, post_elements, sc_pc,
          sc_result, iterations, growths, stall_run, elem, ex_pc, post,
          probes, main_pc, driver, quit_calls, path, elements, feed_i,
          scraped_posts, self_posts, outcomes>>

scrollVars == <<max_posts, posts_loaded, scroll_attempts, post_elements,
                sc_pc, sc_result, iterations, growths, stall_run>>
extractVars == <<elem, ex_pc, post, probes>>
mainVars == <<main_pc, driver, quit_calls, path, elements, feed_i,
              scraped_posts, self_posts, outcomes>>

(***************************************************************************)
(* Bounds of the model.                                                    *)
(***************************************************************************)
\* the largest max_posts argument tried on scroll_and_load_posts
MaxPosts == 3
\* the largest number of feed elements a recount can observe
MaxFeed == 4
\* content lengths run up to TitleLimit + MaxExtra characters
MaxExtra == 2

(***************************************************************************)
(* Python values.                                                          *)
(***************************************************************************)
NoneVal == [kind |-> "None"]
Str(t) == [kind |-> "str", s |-> t]
\* truthiness of an Optional[str]: None and "" are falsy
Truthy(v) == v.kind = "str" /\ v.s # <<>>

Min(a, b) == IF a < b THEN a ELSE b

\* seq[:k] for k >= 0
PySliceTo(seq, k) == SubSeq(seq, 1, Min(Len(seq), k))
\* seq[a:b] for 0 <= a <= b
PySlice(seq, a, b) == SubSeq(seq, a + 1, Min(Len(seq), b))

(***************************************************************************)
(* scroll_and_load_posts                                                   *)
(***************************************************************************)
max_scroll_attempts == 10

\* post_elements before the first assignment in the loop body
Unbound == [kind |-> "unbound"]
\* driver.find_elements(...): the handles of the n feed items now rendered
FindElements(n) == [kind |-> "list", items |-> [k \in 1..n |-> k]]

\* the while condition
LoopCond(loaded, attempts, maxp) ==
    loaded < maxp /\ attempts < max_scroll_attempts

\* posts_loaded after one loop body that counted current_count elements
\* (variant: the recount is stored even when it did not grow)
NextLoaded_Overwrite(loaded, current_count) == current_count

NextLoaded(loaded, current_count) ==
    IF current_count > loaded THEN current_count ELSE loaded

\* scroll_attempts after one loop body that counted current_count elements
\* (variant: growth resets the counter)
NextAttempts_ResetOnGrowth(attempts, loaded, current_count) ==
    IF current_count > loaded THEN 0 ELSE attempts + 1

NextAttempts(attempts, loaded, current_count) ==
    IF current_count > loaded THEN attempts ELSE attempts + 1

\* return post_elements[:max_posts]
\* (variant: the last recount is returned whole)
ReturnSlice_Unsliced(found, maxp) == found.items

ReturnSlice(found, maxp) == PySliceTo(found.items, maxp)

\* entry of scroll_and_load_posts(maxp)
ScrollEnter(maxp) ==
    /\ max_posts' = maxp
    /\ posts_loaded' = 0
    /\ scroll_attempts' = 0
    /\ post_elements' = Unbound
    /\ sc_pc' = "loop"
    /\ sc_result' = <<>>
    /\ iterations' = 0
    /\ growths' = 0
    /\ stall_run' = 0

\* one execution of the loop body
ScrollIteration ==
    /\ sc_pc = "loop"
    /\ LoopCond(posts_loaded, scroll_attempts, max_posts)
    /\ \E current_count \in 0..MaxFeed :
          /\ post_elements' = FindElements(current_count)
          /\ posts_loaded' = NextLoaded(posts_loaded, current_count)
          /\ scroll_attempts' =
                 NextAttempts(scroll_attempts, posts_loaded, current_count)
          /\ iterations' = iterations + 1
          /\ growths' = IF current_count > posts_loaded
                        THEN growths + 1 ELSE growths
          /\ stall_run' = IF current_count > posts_loaded
                          THEN 0 ELSE stall_run + 1
    /\ UNCHANGED <<max_posts, sc_pc, sc_result>>
    /\ UNCHANGED <<extractVars, elements, feed_i, scraped_posts, self_posts,
                   outcomes, main_pc, driver, quit_calls, path>>

\* the loop condition fails: the final print and the return statement
ScrollFinish ==
    /\ sc_pc = "loop"
    /\ ~LoopCond(posts_loaded, scroll_attempts, max_posts)
    /\ IF post_elements.kind = "unbound"
       THEN \* UnboundLocalError: the loop body never ran
            /\ sc_pc' = "unbound_error"
            /\ sc_result' = <<>>
       ELSE /\ sc_pc' = "returned"
            /\ sc_result' = ReturnSlice(post_elements, max_posts)
    /\ UNCHANGED <<max_posts, posts_loaded, scroll_attempts, post_elements,
                   iterations, growths, stall_run>>
    /\ UNCHANGED <<extractVars, elements, feed_i, scraped_posts, self_posts,
                   outcomes, main_pc, driver, quit_calls, path>>

\* execute_script or find_elements raises a driver exception in the loop body
ScrollDriverError ==
    /\ sc_pc = "loop"
    /\ LoopCond(posts_loaded, scroll_attempts, max_posts)
    /\ sc_pc' = "driver_error"
    /\ UNCHANGED <<max_posts, posts_loaded, scroll_attempts, post_elements,
                   sc_result, iterations, growths, stall_run>>
    /\ UNCHANGED <<extractVars, elements, feed_i, scraped_posts, self_posts,
                   outcomes, main_pc, driver, quit_calls, path>>

(***************************************************************************)
(* Text helpers: str(int), strip(), the digit filter, int(str).            *)
(***************************************************************************)
DecimalDigits == <<"0", "1", "2", "3", "4", "5", "6", "7", "8", "9">>

\* characters for which str.isdigit() is true: the decimal digits and
\* digit-like characters such as the superscript two ("SUP2"), which int()
\* does not accept
IsDecimal(c) == \E d \in 1..10 : DecimalDigits[d] = c
IsDigit(c) == IsDecimal(c) \/ c = "SUP2"
IsSpace(c) == c \in {" ", "\t", "\n"}

DigitValue(c) == (CHOOSE d \in 1..10 : DecimalDigits[d] = c) - 1

RECURSIVE NatToStr(_)
NatToStr(n) ==
    IF n < 10 THEN <<DecimalDigits[n + 1]>>
    ELSE NatToStr(n \div 10) \o <<DecimalDigits[(n % 10) + 1]>>

\* str(n) for an int n
IntToStr(n) == IF n < 0 THEN <<"-">> \o NatToStr(-n) ELSE NatToStr(n)

RECURSIVE LStrip(_)
LStrip(t) ==
    IF t # <<>> /\ IsSpace(Head(t)) THEN LStrip(Tail(t)) ELSE t

RECURSIVE RStrip(_)
RStrip(t) ==
    IF t # <<>> /\ IsSpace(t[Len(t)])
    THEN RStrip(SubSeq(t, 1, Len(t) - 1)) ELSE t

\* str.strip()
Strip(t) == RStrip(LStrip(t))

\* ''.join(filter(str.isdigit, t))
DigitsOf(t) == SelectSeq(t, IsDigit)

RECURSIVE DecimalValue(_)
DecimalValue(t) ==
    IF t = <<>> THEN 0
    ELSE 10 * DecimalValue(SubSeq(t, 1, Len(t) - 1)) + DigitValue(t[Len(t)])

\* int(t) for a text of isdigit characters: ValueError on the empty text
\* and on a character that is not a decimal digit
PyInt(t) ==
    IF t = <<>> \/ \E i \in 1..Len(t) : ~IsDecimal(t[i])
    THEN [kind |-> "ValueError"]
    ELSE [kind |-> "int", value |-> DecimalValue(t)]

\* s.startswith(prefix)
StartsWith(t, prefix) ==
    Len(t) >= Len(prefix) /\ SubSeq(t, 1, Len(prefix)) = prefix

(***************************************************************************)
(* extract_post_data                                                       *)
(***************************************************************************)
\* what post_element.find_element(By.CSS_SELECTOR, selector) does for one
\* selector: raises NoSuchElementException, or returns an element
NoSuch == [kind |-> "NoSuchElement"]
Elem(t) == [kind |-> "elem", text |-> t]
Link(h) == [kind |-> "elem", href |-> h]

title_selectors ==
    <<".post-title", "[data-testid='post-title']", "h1, h2, h3",
      ".content-title">>
content_selectors ==
    <<".post-content", "[data-testid='post-content']", ".content-body",
      ".post-text", "p">>
author_selectors ==
    <<".author-name", "[data-testid='author']", ".post-author", ".user-name">>
time_selectors ==
    <<"[data-testid='timestamp']", ".timestamp", ".post-time", "time">>
like_selectors == <<".like-count", "[data-testid='likes']", ".likes">>
comment_selectors ==
    <<".comment-count", "[data-testid='comments']", ".comments">>

\* the length a derived title is cut to
TitleLimit == 100

Ellipsis == <<".", ".", ".">>

\* post_id: data-post-id, else id, else str(hash(outerHTML))[1:10]
PostId(data_post_id, id_attr, outer_hash) ==
    IF Truthy(data_post_id) THEN data_post_id.s
    ELSE IF Truthy(id_attr) THEN id_attr.s
    ELSE PySlice(IntToStr(outer_hash), 1, 10)

\* a selector loop of a text field (title, content, author): dom[i] is what
\* the i-th selector finds; the result holds the field and the number of
\* selectors probed
\* (variant: no break, the last selector that locates an element wins)
RECURSIVE ProbeText_LastLocated(_, _, _)
ProbeText_LastLocated(dom, i, default) ==
    IF i > Len(dom) THEN [value |-> default, probed |-> i - 1]
    ELSE IF dom[i].kind = "elem"
         THEN ProbeText_LastLocated(dom, i + 1, Strip(dom[i].text))
         ELSE ProbeText_LastLocated(dom, i + 1, default)

RECURSIVE ProbeText(_, _, _)
ProbeText(dom, i, default) ==
    IF i > Len(dom) THEN [value |-> default, probed |-> i - 1]
    ELSE IF dom[i].kind = "elem"
         THEN [value |-> Strip(dom[i].text), probed |-> i]
         ELSE ProbeText(dom, i + 1, default)

\* the selector loop of the timestamp: the located text is read and dropped
RECURSIVE ProbeTime(_, _)
ProbeTime(dom, i) ==
    IF i > Len(dom) THEN [value |-> "now", probed |-> i - 1]
    ELSE IF dom[i].kind = "elem"
         THEN [value |-> "now", probed |-> i]
         ELSE ProbeTime(dom, i + 1)

\* int(''.join(filter(str.isdigit, text)))
ParseCount(text) == PyInt(DigitsOf(text))

\* a selector loop of a numeric field (likes, comment count): a selector
\* that finds nothing, and a located text that int() rejects, both continue
\* with the next selector
\* (variant: ValueError is not caught by the loop and leaves it)
ProbeNumeric_ValueErrorEscapes(dom, i) ==
    LET located == {k \in i..Len(dom) : dom[k].kind = "elem"}
        first == CHOOSE k \in located : \A m \in located : k <= m
        r == ParseCount(Strip(dom[first].text))
    IN  IF located = {} THEN [kind |-> "ok", value |-> 0, probed |-> Len(dom)]
        ELSE IF r.kind = "ValueError"
             THEN [kind |-> "ValueError", value |-> 0, probed |-> first]
             ELSE [kind |-> "ok", value |-> r.value, probed |-> first]

RECURSIVE ProbeNumeric(_, _)
ProbeNumeric(dom, i) ==
    IF i > Len(dom) THEN [kind |-> "ok", value |-> 0, probed |-> i - 1]
    ELSE IF dom[i].kind = "elem"
         THEN LET r == ParseCount(Strip(dom[i].text))
              IN  IF r.kind = "ValueError"
                  THEN ProbeNumeric(dom, i + 1)
                  ELSE [kind |-> "ok", value |-> r.value, probed |-> i]
         ELSE ProbeNumeric(dom, i + 1)

\* if not title and content: title = content[:100] + "..." if
\* len(content) > 100 else content
\* (variant: the cut title carries no "...")
DeriveTitle_NoMarker(title, content) ==
    IF title = <<>> /\ content # <<>>
    THEN PySliceTo(content, TitleLimit)
    ELSE title

DeriveTitle(title, content) ==
    IF title = <<>> /\ content # <<>>
    THEN IF Len(content) > TitleLimit
         THEN PySliceTo(content, TitleLimit) \o Ellipsis
         ELSE content
    ELSE title

\* post_url: the href of the first link if it starts with "http", else the
\* driver's current URL
PostUrl(link, current_url) ==
    IF link.kind = "elem" /\ Truthy(link.href)
       /\ StartsWith(link.href.s, <<"h", "t", "t", "p">>)
    THEN link.href.s
    ELSE current_url

\* the whole of extract_post_data on feed item e: the Post, or None when
\* an exception is raised inside the try block; probes records, per field,
\* how many selectors of its list were tried
ExtractPostData(e, current_url) ==
    LET t == ProbeText(e.title, 1, <<>>)
        c == ProbeText(e.content, 1, <<>>)
        a == ProbeText(e.author, 1, <<"U", "n", "k", "n", "o", "w", "n">>)
        ts == ProbeTime(e.time, 1)
        l == ProbeNumeric(e.likes, 1)
        n == ProbeNumeric(e.comments, 1)
        pr == [title |-> t.probed, content |-> c.probed,
               author |-> a.probed, time |-> ts.probed,
               likes |-> l.probed, comments |-> n.probed]
    IN  \* the outer except Exception: anything raised in the try block
        IF e.raises \/ l.kind = "ValueError" \/ n.kind = "ValueError"
        THEN [post |-> NoneVal, probes |-> pr]
        ELSE [post |-> [kind |-> "Post",
                        id |-> PostId(e.data_post_id, e.id_attr, e.outer_hash),
                        title |-> DeriveTitle(t.value, c.value),
                        content |-> c.value,
                        author |-> a.value,
                        timestamp |-> ts.value,
                        likes |-> l.value,
                        comments_count |-> n.value,
                        url |-> PostUrl(e.link, current_url),
                        category |-> <<>>,
                        comments |-> <<>>],
              probes |-> pr]

(***************************************************************************)
(* Feed items extract_post_data is applied to.                             *)
(***************************************************************************)
NoneLocated(selectors) == [i \in 1..Len(selectors) |-> NoSuch]

\* a feed item with a data-post-id and nothing else
BaseElem ==
    [data_post_id |-> Str(<<"p", "1">>), id_attr |-> NoneVal, outer_hash |-> 0,
     title |-> NoneLocated(title_selectors),
     content |-> NoneLocated(content_selectors),
     author |-> NoneLocated(author_selectors),
     time |-> NoneLocated(time_selectors),
     likes |-> NoneLocated(like_selectors),
     comments |-> NoneLocated(comment_selectors),
     link |-> NoSuch, raises |-> FALSE]

CurrentUrl == <<"h", "t", "t", "p", ":", "/", "/", "c">>

\* values of get_attribute: None, "" or a text
OptAttrs(t) == {NoneVal, Str(<<>>), Str(t)}

\* values of hash(outerHTML): one digit, several digits, both signs
HashValues == {0, 7, -7, 42, -42, 1234567890, -1234567890, 2147483647}

\* the text of the element the i-th selector of a field locates:
\* surrounded by white space, and different for every selector
TaggedText(tag, i) == <<" ", tag, DecimalDigits[i + 1], "\n">>

\* every way the selectors of a text field can locate nothing, an element
\* with an empty text, or an element with a text
TextDoms(selectors, tag) ==
    {[i \in 1..Len(selectors) |->
         CASE m[i] = "none" -> NoSuch
           [] m[i] = "empty" -> Elem(<<" ">>)
           [] OTHER -> Elem(TaggedText(tag, i))] :
     m \in [1..Len(selectors) -> {"none", "empty", "text"}]}

\* a content text of len characters after strip(), tagged with its selector
ContentText(i, len, pad) ==
    [k \in 1..pad |-> " "]
    \o (IF len = 0 THEN <<>>
        ELSE <<DecimalDigits[i + 1]>> \o [k \in 1..(len - 1) |-> "x"])
    \o [k \in 1..pad |-> " "]

ContentLens == {0, 1, TitleLimit - 1} \cup (TitleLimit..(TitleLimit + MaxExtra))

ContentDoms ==
    {[i \in 1..Len(content_selectors) |->
         IF m[i] THEN Elem(ContentText(i, len, pad)) ELSE NoSuch] :
     m \in [1..Len(content_selectors) -> BOOLEAN],
     len \in ContentLens, pad \in 0..1}

\* texts of a likes or comment-count element
NumTexts ==
    {<<>>, <<"l", "i", "k", "e", "s">>,
     <<"1", ".", "2", "k", " ", "l", "i", "k", "e", "s">>,
     <<"7">>, <<" ", "1", "2", " ">>, <<"0">>, <<"5", "SUP2">>, <<"-", "3">>}

NumDoms(selectors) ==
    [1..Len(selectors) -> {NoSuch} \cup {Elem(t) : t \in NumTexts}]

TimeDoms == [1..Len(time_selectors) -> {NoSuch, Elem(<<"2", "h">>)}]

Links ==
    {NoSuch, Link(NoneVal), Link(Str(<<>>)),
     Link(Str(<<"h", "t", "t", "p", "s", ":", "/", "/", "x">>)),
     Link(Str(<<"/", "p", "o", "s", "t">>))}

\* representative title lookups: nothing located, an empty text, a text
TitleSamples ==
    {NoneLocated(title_selectors),
     [NoneLocated(title_selectors) EXCEPT ![2] = Elem(<<" ">>)],
     [NoneLocated(title_selectors) EXCEPT ![3] = Elem(TaggedText("T", 3))]}

ContentSamples ==
    {NoneLocated(content_selectors),
     [NoneLocated(content_selectors) EXCEPT ![2] = Elem(ContentText(2, 5, 1))],
     [NoneLocated(content_selectors)
         EXCEPT ![5] = Elem(ContentText(5, TitleLimit + 1, 0))]}

\* the feed items tried: every field is varied over all its lookups, the
\* title together with the content it may be derived from
ExtractInputs ==
    {[BaseElem EXCEPT !.data_post_id = d, !.id_attr = a, !.outer_hash = h] :
        d \in OptAttrs(<<"p", "1">>), a \in OptAttrs(<<"e", "1">>),
        h \in HashValues}
    \cup {[BaseElem EXCEPT !.title = t, !.content = c] :
            t \in TextDoms(title_selectors, "T"), c \in ContentSamples}
    \cup {[BaseElem EXCEPT !.title = t, !.content = c] :
            t \in TitleSamples, c \in ContentDoms}
    \cup {[BaseElem EXCEPT !.author = a] :
            a \in TextDoms(author_selectors, "A")}
    \cup {[BaseElem EXCEPT !.time = t] : t \in TimeDoms}
    \cup {[BaseElem EXCEPT !.likes = l] : l \in NumDoms(like_selectors)}
    \cup {[BaseElem EXCEPT !.comments = c] : c \in NumDoms(comment_selectors)}
    \cup {[BaseElem EXCEPT !.link = k, !.raises = r] :
            k \in Links, r \in BOOLEAN}

NoProbes ==
    [title |-> 0, content |-> 0, author |-> 0, time |-> 0, likes |-> 0,
     comments |-> 0]

\* extract_post_data(elem)
ExtractCall ==
    /\ ex_pc = "call"
    /\ LET r == ExtractPostData(elem, CurrentUrl)
       IN  /\ post' = r.post
           /\ probes' = r.probes
    /\ ex_pc' = "done"
    /\ UNCHANGED <<elem, scrollVars, mainVars>>

(***************************************************************************)
(* scrape_posts, close and main                                            *)
(***************************************************************************)
\* main calls scrape_posts(max_posts=50)
MainMaxPosts == 50

\* the feed item behind handle k: fully populated, bare (nothing located,
\* no data-post-id), or one whose extraction raises
ItemVariants == {"full", "bare", "raises"}

ItemDom(k, variant) ==
    LET key == DecimalDigits[k + 1]
    IN  CASE variant = "full" ->
               [BaseElem EXCEPT
                   !.data_post_id = Str(<<"p", key>>),
                   !.title[1] = Elem(<<"T", key>>),
                   !.content[1] = Elem(<<"C", key>>),
                   !.author[2] = Elem(<<"A", key>>),
                   !.likes[1] = Elem(<<key>>)]
          [] variant = "bare" ->
               [BaseElem EXCEPT
                   !.data_post_id = NoneVal,
                   !.id_attr = Str(<<"e", key>>)]
          [] OTHER ->
               [BaseElem EXCEPT
                   !.data_post_id = Str(<<"p", key>>), !.raises = TRUE]

\* if post_data: a Post instance is truthy, None is not
PostTruthy(p) == p.kind = "Post"

\* the frame of scroll_and_load_posts is gone
ScrollFrameGone ==
    /\ max_posts' = 0
    /\ posts_loaded' = 0
    /\ scroll_attempts' = 0
    /\ post_elements' = Unbound
    /\ sc_pc' = "idle"
    /\ sc_result' = <<>>
    /\ iterations' = 0
    /\ growths' = 0
    /\ stall_run' = 0

\* SkoolScraper.close: quit the driver if there is one
Close(drv, calls) == IF drv = "set" THEN calls + 1 ELSE calls

\* the environment check at the top of main
MainEnv ==
    /\ main_pc = "env"
    /\ \E complete \in BOOLEAN :
          IF complete
          THEN main_pc' = "setup" /\ UNCHANGED path
          ELSE main_pc' = "returned" /\ path' = "env_missing"
    /\ UNCHANGED <<driver, quit_calls, elements, feed_i, scraped_posts,
                   self_posts, outcomes, scrollVars, extractVars>>

\* scraper.setup_driver(): webdriver.Chrome(...) returns or raises
MainSetupDriver ==
    /\ main_pc = "setup"
    /\ \E started \in BOOLEAN :
          IF started
          THEN driver' = "set" /\ main_pc' = "login" /\ UNCHANGED path
          ELSE UNCHANGED driver /\ main_pc' = "finally"
               /\ path' = "setup_error"
    /\ UNCHANGED <<quit_calls, elements, feed_i, scraped_posts, self_posts,
                   outcomes, scrollVars, extractVars>>

\* if not scraper.login(...): return  (login turns its exceptions to False)
\* (variant: the return on a failed login does not pass the finally clause)
MainLogin_ReturnSkipsCleanup ==
    /\ main_pc = "login"
    /\ \E logged_in \in BOOLEAN :
          IF logged_in
          THEN main_pc' = "navigate" /\ UNCHANGED path
          ELSE main_pc' = "returned" /\ path' = "login_failed"
    /\ UNCHANGED <<driver, quit_calls, elements, feed_i, scraped_posts,
                   self_posts, outcomes, scrollVars, extractVars>>

MainLogin ==
    /\ main_pc = "login"
    /\ \E logged_in \in BOOLEAN :
          IF logged_in
          THEN main_pc' = "navigate" /\ UNCHANGED path
          ELSE main_pc' = "finally" /\ path' = "login_failed"
    /\ UNCHANGED <<driver, quit_calls, elements, feed_i, scraped_posts,
                   self_posts, outcomes, scrollVars, extractVars>>

\* if not scraper.navigate_to_community(): return
MainNavigate ==
    /\ main_pc = "navigate"
    /\ \E arrived \in BOOLEAN :
          IF arrived
          THEN main_pc' = "scrape" /\ UNCHANGED path
          ELSE main_pc' = "finally" /\ path' = "navigation_failed"
    /\ UNCHANGED <<driver, quit_calls, elements, feed_i, scraped_posts,
                   self_posts, outcomes, scrollVars, extractVars>>

\* scrape_posts(50) calls scroll_and_load_posts(max_posts)
ScrapeEnter ==
    /\ main_pc = "scrape"
    /\ ScrollEnter(MainMaxPosts)
    /\ main_pc' = "scrolling"
    /\ UNCHANGED <<driver, quit_calls, path, elements, feed_i, scraped_posts,
                   self_posts, outcomes, extractVars>>

\* scroll_and_load_posts returned: scraped_posts = [] and the for loop starts
ScrapeLoaded ==
    /\ main_pc = "scrolling"
    /\ sc_pc = "returned"
    /\ elements' = sc_result
    /\ feed_i' = 0
    /\ scraped_posts' = <<>>
    /\ outcomes' = <<>>
    /\ main_pc' = "extract"
    /\ ScrollFrameGone
    /\ UNCHANGED <<driver, quit_calls, path, self_posts, extractVars>>

\* scroll_and_load_posts raised: the exception reaches main's handler
ScrapeScrollRaised ==
    /\ main_pc = "scrolling"
    /\ sc_pc \in {"driver_error", "unbound_error"}
    /\ main_pc' = "finally"
    /\ path' = "exception"
    /\ ScrollFrameGone
    /\ UNCHANGED <<driver, quit_calls, elements, feed_i, scraped_posts,
                   self_posts, outcomes, extractVars>>

\* scraped_posts after the loop body got post_data from extract_post_data
\* (variant: a None result empties the list)
Collect_ResetOnNone(collected, post_data) ==
    IF PostTruthy(post_data) THEN Append(collected, post_data) ELSE <<>>

Collect(collected, post_data) ==
    IF PostTruthy(post_data) THEN Append(collected, post_data) ELSE collected

\* one round of the for loop of scrape_posts
ScrapeItem ==
    /\ main_pc = "extract"
    /\ feed_i < Len(elements)
    /\ \E variant \in ItemVariants :
          LET post_data ==
                  ExtractPostData(ItemDom(elements[feed_i + 1], variant),
                                  CurrentUrl).post
          IN  /\ scraped_posts' = Collect(scraped_posts, post_data)
              /\ outcomes' = Append(outcomes,
                                    [raised |-> variant = "raises",
                                     result |-> post_data])
    /\ feed_i' = feed_i + 1
    /\ UNCHANGED <<main_pc, driver, quit_calls, path, elements, self_posts,
                   scrollVars, extractVars>>

\* the loop is over: self.posts = scraped_posts, return; main's "if posts"
ScrapeReturn ==
    /\ main_pc = "extract"
    /\ feed_i = Len(elements)
    /\ self_posts' = scraped_posts
    /\ IF scraped_posts # <<>>
       THEN main_pc' = "save_json" /\ UNCHANGED path
       ELSE main_pc' = "finally" /\ path' = "empty"
    /\ UNCHANGED <<driver, quit_calls, elements, feed_i, scraped_posts,
                   outcomes, scrollVars, extractVars>>

\* scraper.save_to_json(): written, or open/json.dump raises
MainSaveJson ==
    /\ main_pc = "save_json"
    /\ \E written \in BOOLEAN :
          IF written
          THEN main_pc' = "save_csv" /\ UNCHANGED path
          ELSE main_pc' = "finally" /\ path' = "exception"
    /\ UNCHANGED <<driver, quit_calls, elements, feed_i, scraped_posts,
                   self_posts, outcomes, scrollVars, extractVars>>

\* scraper.save_to_csv() and the summary
MainSaveCsv ==
    /\ main_pc = "save_csv"
    /\ \E written \in BOOLEAN :
          /\ main_pc' = "finally"
          /\ path' = IF written THEN "normal" ELSE "exception"
    /\ UNCHANGED <<driver, quit_calls, elements, feed_i, scraped_posts,
                   self_posts, outcomes, scrollVars, extractVars>>

\* KeyboardInterrupt anywhere in the try block: no except Exception of
\* login, navigate_to_community or extract_post_data catches it
MainInterrupt ==
    /\ main_pc \in {"setup", "login", "navigate", "scrape", "scrolling",
                    "extract", "save_json", "save_csv"}
    /\ main_pc' = "finally"
    /\ path' = "interrupt"
    /\ ScrollFrameGone
    /\ UNCHANGED <<driver, quit_calls, elements, feed_i, scraped_posts,
                   self_posts, outcomes, extractVars>>

\* finally: scraper.close()
MainFinally ==
    /\ main_pc = "finally"
    /\ quit_calls' = Close(driver, quit_calls)
    /\ main_pc' = "returned"
    /\ UNCHANGED <<driver, path, elements, feed_i, scraped_posts, self_posts,
                   outcomes, scrollVars, extractVars>>

(***************************************************************************)
(* Specifications.                                                         *)
(***************************************************************************)
ScrollIdle ==
    /\ max_posts = 0
    /\ posts_loaded = 0
    /\ scroll_attempts = 0
    /\ post_elements = Unbound
    /\ sc_pc = "idle"
    /\ sc_result = <<>>
    /\ iterations = 0
    /\ growths = 0
    /\ stall_run = 0

ExtractIdle ==
    /\ elem = BaseElem
    /\ ex_pc = "idle"
    /\ post = NoneVal
    /\ probes = NoProbes

MainIdle ==
    /\ main_pc = "idle"
    /\ driver = "None"
    /\ quit_calls = 0
    /\ path = "none"
    /\ elements = <<>>
    /\ feed_i = 0
    /\ scraped_posts = <<>>
    /\ self_posts = <<>>
    /\ outcomes = <<>>

\* main is entered: SkoolScraper.__init__ leaves driver None and posts []
Init ==
    /\ main_pc = "env"
    /\ driver = "None"
    /\ quit_calls = 0
    /\ path = "none"
    /\ elements = <<>>
    /\ feed_i = 0
    /\ scraped_posts = <<>>
    /\ self_posts = <<>>
    /\ outcomes = <<>>
    /\ ScrollIdle
    /\ ExtractIdle

Next ==
    \/ MainEnv
    \/ MainSetupDriver
    \/ MainLogin
    \/ MainNavigate
    \/ ScrapeEnter
    \/ ScrollIteration
    \/ ScrollFinish
    \/ ScrollDriverError
    \/ ScrapeLoaded
    \/ ScrapeScrollRaised
    \/ ScrapeItem
    \/ ScrapeReturn
    \/ MainSaveJson
    \/ MainSaveCsv
    \/ MainInterrupt
    \/ MainFinally

\* a run of main
Spec == Init /\ [][Next]_vars

\* scroll_and_load_posts is entered with any max_posts of 0..MaxPosts
InitScroll ==
    /\ max_posts \in 0..MaxPosts
    /\ posts_loaded = 0
    /\ scroll_attempts = 0
    /\ post_elements = Unbound
    /\ sc_pc = "loop"
    /\ sc_result = <<>>
    /\ iterations = 0
    /\ growths = 0
    /\ stall_run = 0
    /\ ExtractIdle
    /\ MainIdle

NextScroll == ScrollIteration \/ ScrollFinish \/ ScrollDriverError

\* a call of scroll_and_load_posts
SpecScroll == InitScroll /\ [][NextScroll]_vars

\* the same call, which goes on as long as it can: the program is one
\* thread that runs each statement to completion
SpecScrollFair == SpecScroll /\ WF_vars(NextScroll)

\* extract_post_data is entered with any of the feed items tried
InitExtract ==
    /\ elem \in ExtractInputs
    /\ ex_pc = "call"
    /\ post = NoneVal
    /\ probes = NoProbes
    /\ ScrollIdle
    /\ MainIdle

NextExtract == ExtractCall

\* a call of extract_post_data
SpecExtract == InitExtract /\ [][NextExtract]_vars

(***************************************************************************)
(* Properties of scroll_and_load_posts.                                    *)
(***************************************************************************)
ScrollEnded == sc_pc \in {"returned", "unbound_error"}

\* the number of loop iterations so far in which the count did not grow
StallsInTotal == iterations - growths

\* C1: for max_posts >= 1, scroll_and_load_posts never returns more than
\* max_posts elements, and the loop never runs more than 10 iterations
\* after the last iteration in which the loaded count grew.
C1_BoundedReturnAndStalls ==
    max_posts >= 1 =>
        /\ sc_pc = "returned" => Len(sc_result) <= max_posts
        /\ stall_run <= 10

\* the last recount saw more than max_posts elements and the slice cut them
C1_Witness ==
    /\ sc_pc = "returned"
    /\ max_posts >= 1
    /\ Len(post_elements.items) > max_posts
    /\ Len(sc_result) = max_posts
    /\ StallsInTotal > 0

\* C2 as stated: the counter counts consecutive stalls, so the loop, while
\* fewer than max_posts are loaded, stops only after 10 iterations in a row
\* without growth.
C2_StopsOnlyAfterTenStallsInARow ==
    (ScrollEnded /\ posts_loaded < max_posts) => stall_run = 10

\* C2 as amended: the loop goes on while fewer than max_posts are loaded and
\* fewer than 10 iterations in total, consecutive or not, went without
\* growth; the counter is never reset, so with fewer than max_posts loaded
\* the loop stops exactly when the 10th iteration without growth is over.
C2_StopsAfterTenStallsInTotal ==
    /\ scroll_attempts = StallsInTotal
    /\ (sc_pc = "loop" /\ posts_loaded < max_posts /\ StallsInTotal < 10)
           => ENABLED ScrollIteration
    /\ ScrollEnded => (posts_loaded >= max_posts \/ StallsInTotal = 10)
    /\ (ScrollEnded /\ posts_loaded < max_posts) => StallsInTotal = 10

\* the loop stopped on stalls that growth had interrupted
C2_Witness ==
    /\ sc_pc = "returned"
    /\ posts_loaded < max_posts
    /\ StallsInTotal = 10
    /\ stall_run < 10
    /\ growths > 0

\* C9: for max_posts >= 1 and any feed, the loop ends after at most
\* max_posts + 10 iterations: every iteration strictly increases
\* posts_loaded or increments the stall counter, and neither ever decreases.
C9_LoopTerminates ==
    /\ [](max_posts >= 1 => iterations <= max_posts + 10)
    /\ [][max_posts >= 1 =>
            /\ posts_loaded' >= posts_loaded
            /\ scroll_attempts' >= scroll_attempts
            /\ iterations' # iterations =>
                  \/ posts_loaded' > posts_loaded
                  \/ scroll_attempts' = scroll_attempts + 1]_vars
    /\ <>(sc_pc # "loop")

\* the longest run: max_posts - 1 iterations that grew and 10 that did not
C9_Witness ==
    /\ sc_pc = "returned"
    /\ max_posts >= 2
    /\ growths = max_posts - 1
    /\ iterations = max_posts + 9

\* C10: for max_posts >= 0, scroll_and_load_posts returns, without raising,
\* a sequence of min(posts_loaded, max_posts) elements.
C10_ReturnsMinOfLoadedAndMax ==
    ScrollEnded =>
        /\ sc_pc = "returned"
        /\ Len(sc_result) = Min(posts_loaded, max_posts)

(***************************************************************************)
(* Properties of extract_post_data.                                        *)
(***************************************************************************)
Extracted == ex_pc = "done" /\ post.kind = "Post"

Located(dom) == {i \in 1..Len(dom) : dom[i].kind = "elem"}
Least(S) == CHOOSE i \in S : \A j \in S : i <= j
HasDigit(t) == \E i \in 1..Len(t) : IsDigit(t[i])

\* the selectors whose element has a text int() accepts once filtered
Parses(dom) ==
    {i \in Located(dom) :
        /\ \E k \in 1..Len(dom[i].text) : IsDigit(dom[i].text[k])
        /\ \A k \in 1..Len(dom[i].text) :
              IsDigit(dom[i].text[k]) => IsDecimal(dom[i].text[k])}

ProbedUpTo(dom, S) == IF S = {} THEN Len(dom) ELSE Least(S)

C5_IdNeverEmpty ==
    Extracted =>
        /\ post.id # <<>>
        /\ Truthy(elem.data_post_id) => post.id = elem.data_post_id.s
        /\ (~Truthy(elem.data_post_id) /\ Truthy(elem.id_attr))
               => post.id = elem.id_attr.s

\* C8: a feed item with no title element and non-empty content gets the
\* first 100 characters of content followed by "..." as its title when
\* content has more than 100 characters, and content itself otherwise.
C8_DerivedTitle ==
    (Extracted /\ Located(elem.title) = {} /\ post.content # <<>>) =>
        IF Len(post.content) > 100
        THEN post.title = SubSeq(post.content, 1, 100) \o <<".", ".", ".">>
        ELSE post.title = post.content

\* a content of 101 characters was cut to 100 and marked
C8_Witness ==
    /\ Extracted
    /\ Located(elem.title) = {}
    /\ Len(post.content) = 101
    /\ Len(post.title) = 103
    /\ post.title[100] = post.content[100]
    /\ post.title[101] = "."

(***************************************************************************)
(* Properties of main and scrape_posts.                                    *)
(***************************************************************************)
\* C6: once setup_driver has acquired the driver, main quits it exactly
\* once before it returns, on every path.
C6_DriverReleasedOnce ==
    /\ quit_calls <= 1
    /\ driver # "set" => quit_calls = 0
    /\ (main_pc = "returned" /\ driver = "set") => quit_calls = 1
    /\ (quit_calls = 1) => main_pc = "returned"

\* main returned after a keyboard interrupt between two feed items
C6_Witness ==
    /\ main_pc = "returned"
    /\ driver = "set"
    /\ path = "interrupt"
    /\ feed_i > 0
    /\ quit_calls = 1

\* scrape_posts has returned to main
ScrapeReturned ==
    main_pc \in {"save_json", "save_csv"} \/ path \in {"empty", "normal"}

Results(log) == [k \in 1..Len(log) |-> log[k].result]

\* C7: an exception while one feed item is extracted drops that item only:
\* extract_post_data returns None for it, every remaining element is still
\* processed, and the result and self.posts are the Posts of the elements
\* extracted without an exception, in feed order.
C7_OnlyFailedItemDropped ==
    /\ \A k \in 1..Len(outcomes) :
          /\ outcomes[k].raised <=> outcomes[k].result = NoneVal
          /\ ~outcomes[k].raised =>
                outcomes[k].result.id[2] = DecimalDigits[elements[k] + 1]
    /\ main_pc = "extract" =>
          /\ Len(outcomes) = feed_i
          /\ scraped_posts = SelectSeq(Results(outcomes), PostTruthy)
    /\ ScrapeReturned =>
          /\ Len(outcomes) = Len(elements)
          /\ scraped_posts = SelectSeq(Results(outcomes), PostTruthy)
          /\ self_posts = scraped_posts

\* the second of three feed items raised; the first and the third are kept
C7_Witness ==
    /\ main_pc = "save_json"
    /\ Len(elements) = 3
    /\ ~outcomes[1].raised /\ outcomes[2].raised /\ ~outcomes[3].raised
    /\ self_posts = <<outcomes[1].result, outcomes[3].result>>

====
